---------------------------- MODULE Spec2Model ----------------------------
(***************************************************************************)
(* The calling lobby (ts/components/CallingLobby.tsx) as a state machine.  *)
(*                                                                         *)
(* CallingLobby is a React function component.  Its state is the props of  *)
(* the last committed render, the useState cell isCallConnecting, the two  *)
(* useEffect hooks (preview registration, document keydown listener) and   *)
(* the output of the last render (the closures the DOM holds).  React      *)
(* drives it: a render is committed (Mount, ReceiveProps, Rerender), the   *)
(* passive effects of a commit run later (FlushPassiveEffects) but always  *)
(* before the next render begins, a state update queued by a handler is    *)
(* applied by the next render, and unmounting runs every effect cleanup.   *)
(* DOM events (ClickJoin, ClickVideo, ClickAudio, KeyDown) may arrive      *)
(* between any two of these steps.                                         *)
(*                                                                         *)
(* The calls the component makes on its environment (setLocalPreview,      *)
(* add/removeEventListener, onJoinCall, setLocalAudio, setLocalVideo,      *)
(* preventDefault, stopPropagation) are recorded in history variables.     *)
(***************************************************************************)
EXTENDS Integers, Sequences, FiniteSets, TLC

\* ------------------------------------------------------------------ bounds

\* Longest peeked-participant list drawn for a render.
MaxPeeked == 4
\* Largest number of available cameras drawn for a render.
MaxCameras == 2
\* Join clicks that reach the onClick closure during one mount.
MaxJoinCalls == 2
\* handleKeyDown closures created (runs of the keydown effect) during one mount.
MaxHandlers == 3
\* Runs of the setLocalPreview effect during one mount.
MaxPreviewRuns == 2

\* ------------------------------------------------------------------ inputs

\* Identities of the callback props (two distinct functions each).
FnIds == {"f1", "f2"}

\* me.uuid
MeUuid == "uuid-me"

\* The conversations that peekedParticipants is drawn from; an empty
\* firstName stands for a missing (falsy) one.
Conversations ==
  { [uuid |-> "uuid-me",    firstName |-> "Alice", title |-> "Alice A"],
    [uuid |-> "uuid-bob",   firstName |-> "Bob",   title |-> "Bob B"],
    [uuid |-> "uuid-carol", firstName |-> "",      title |-> "Carol C"] }

SeqsUpTo(S, n) == UNION { [1..k -> S] : k \in 0..n }

\* KeyboardEvent.key values dispatched on the document.
Keys == {"V", "v", "M", "m", "x"}

KeyEvents == [shiftKey : BOOLEAN, key : Keys]

\* PropsType after the destructuring defaults of the parameter list
\* (isGroupCall = false, isCallFull = false); availableCameras is its length.
PropsSpace(peeked, cameras, groups) ==
  [ availableCameras   : cameras,
    hasLocalAudio      : BOOLEAN,
    hasLocalVideo      : BOOLEAN,
    isGroupCall        : groups,
    isCallFull         : BOOLEAN,
    peekedParticipants : peeked,
    setLocalAudio      : FnIds,
    setLocalVideo      : FnIds,
    setLocalPreview    : FnIds ]

\* Peeked lists drawn while the lobby lives: the handlers read only whether
\* the list is empty.
LobbyPeeked ==
  { << >>, << [uuid |-> "uuid-bob", firstName |-> "Bob", title |-> "Bob B"] >> }

\* Props drawn while the lobby lives: everything the hooks and handlers read.
LobbyProps == PropsSpace(LobbyPeeked, {1}, {TRUE})

\* Props of the first render.  The two identities of a callback prop are
\* interchangeable, so the first render is given the first of them.
MountProps ==
  { p \in LobbyProps :
      p.setLocalAudio = "f1" /\ p.setLocalVideo = "f1" /\ p.setLocalPreview = "f1" }

\* The props a re-render by the parent may bring: one prop differs from p.
PropChanges(p) ==
  ( { [p EXCEPT !.hasLocalAudio = b] : b \in BOOLEAN }
    \cup { [p EXCEPT !.hasLocalVideo = b] : b \in BOOLEAN }
    \cup { [p EXCEPT !.isCallFull = b] : b \in BOOLEAN }
    \cup { [p EXCEPT !.peekedParticipants = l] : l \in LobbyPeeked }
    \cup { [p EXCEPT !.setLocalAudio = f] : f \in FnIds }
    \cup { [p EXCEPT !.setLocalVideo = f] : f \in FnIds }
    \cup { [p EXCEPT !.setLocalPreview = f] : f \in FnIds } ) \ {p}

\* Props drawn for a single render: everything the render reads.
ViewProps ==
  { p \in PropsSpace(SeqsUpTo(Conversations, MaxPeeked), 0..MaxCameras, BOOLEAN) :
      /\ p.setLocalAudio = "f1"
      /\ p.setLocalVideo = "f1"
      /\ p.setLocalPreview = "f1" }

VARIABLES
  phase,             \* "init" (not yet mounted), "mounted", "unmounted"
  props,             \* props of the last committed render
  isCallConnecting,  \* useState cell, as the last render read it
  updateQueued,      \* a setIsCallConnecting(true) not yet rendered
  view,              \* output of the last render
  pendingPassive,    \* the last commit's passive effects have not run yet
  previewEffect,     \* hook state of the setLocalPreview effect
  keydownEffect,     \* hook state of the keydown effect
  listeners,         \* 'keydown' listeners attached to the document
  handlerCount,      \* handleKeyDown closures created so far
  previewLog,        \* history: setLocalPreview calls
  listenerLog,       \* history: add/removeEventListener('keydown') calls
  joinCalls,         \* history: number of onJoinCall invocations
  receivedProps,     \* history: the parent re-rendered the lobby with new props
  lastEvent          \* history: the last DOM event and the calls it made

vars == << phase, props, isCallConnecting, updateQueued, view, pendingPassive,
           previewEffect, keydownEffect, listeners, handlerCount, previewLog,
           listenerLog, joinCalls, receivedProps, lastEvent >>


\* ------------------------------------------------------------------ render

\* i18n('you'), the name the local user is listed under.
You == "i18n:you"

\* String(n): the decimal numeral of a natural number.
Digits == << "0", "1", "2", "3", "4", "5", "6", "7", "8", "9" >>

RECURSIVE String(_)
String(n) ==
  IF n < 10 THEN Digits[n + 1] ELSE String(n \div 10) \o Digits[(n % 10) + 1]

\* The memoized closure toggleAudio of a render with props p.  useCallback
\* keeps the closure while its dependencies are the same, so the closure is
\* identified by the dependency values it captured.
toggleAudioCallback(p) ==
  [hasLocalAudio |-> p.hasLocalAudio, setLocalAudio |-> p.setLocalAudio]

\* The memoized closure toggleVideo of a render with props p.
toggleVideoCallback(p) ==
  [hasLocalVideo |-> p.hasLocalVideo, setLocalVideo |-> p.setLocalVideo]

\* Calling toggleAudio: the setLocalAudio call it makes.
toggleAudio(cb) == [fn |-> cb.setLocalAudio, enabled |-> ~cb.hasLocalAudio]

\* toggleVideo requesting the current value instead of the inverted one.
toggleVideoSameValue(cb) == [fn |-> cb.setLocalVideo, enabled |-> cb.hasLocalVideo]

\* Calling toggleVideo: the setLocalVideo call it makes.
toggleVideo(cb) == [fn |-> cb.setLocalVideo, enabled |-> ~cb.hasLocalVideo]

\* videoButtonType with camera availability tested before the on/off flag.
videoButtonTypeCamerasFirst(p) ==
  IF p.availableCameras = 0 THEN "VIDEO_DISABLED"
  ELSE IF p.hasLocalVideo THEN "VIDEO_ON"
  ELSE "VIDEO_OFF"

videoButtonType(p) ==
  IF p.hasLocalVideo THEN "VIDEO_ON"
  ELSE IF p.availableCameras = 0 THEN "VIDEO_DISABLED"
  ELSE "VIDEO_OFF"

audioButtonType(p) == IF p.hasLocalAudio THEN "AUDIO_ON" ELSE "AUDIO_OFF"

participantName(participant) ==
  IF participant.uuid = MeUuid THEN You
  ELSE IF participant.firstName # "" THEN participant.firstName
  ELSE participant.title

participantNames(p) ==
  [i \in 1..Len(p.peekedParticipants) |-> participantName(p.peekedParticipants[i])]

hasYou(p) ==
  \E i \in 1..Len(p.peekedParticipants) : p.peekedParticipants[i].uuid = MeUuid

\* canJoin that forgets the call-full flag.
canJoinIgnoringFull(p, connecting) == ~connecting

\* canJoin that forgets the join attempt in flight.
canJoinIgnoringConnecting(p, connecting) == ~p.isCallFull

canJoin(p, connecting) == ~p.isCallFull /\ ~connecting

\* joinButtonChildren with the spinner tested before the call-full text.
joinButtonChildrenSpinnerFirst(p, connecting) ==
  IF connecting THEN "Spinner"
  ELSE IF p.isCallFull THEN "calling__call-is-full"
  ELSE IF Len(p.peekedParticipants) # 0 THEN "calling__join"
  ELSE "calling__start"

joinButtonChildren(p, connecting) ==
  IF p.isCallFull THEN "calling__call-is-full"
  ELSE IF connecting THEN "Spinner"
  ELSE IF Len(p.peekedParticipants) # 0 THEN "calling__join"
  ELSE "calling__start"

\* `cond && i18n(key, args)`: the child is rendered only when cond holds.
Child(cond, key, args) ==
  IF cond THEN << [key |-> key, args |-> args] >> ELSE << >>

\* lobbySummary whose last case starts at three participants and counts the
\* others from the third entry on.
lobbySummaryManyFromThree(p) ==
  LET names == [i \in 1..Len(p.peekedParticipants) |->
                  IF p.peekedParticipants[i].uuid = MeUuid THEN You
                  ELSE IF p.peekedParticipants[i].firstName # ""
                       THEN p.peekedParticipants[i].firstName
                       ELSE p.peekedParticipants[i].title]
      n     == Len(names)
      self  == \E i \in 1..n : p.peekedParticipants[i].uuid = MeUuid
  IN    (IF n = 0 THEN << [key |-> "calling__lobby-summary--zero", args |-> << >>] >>
         ELSE << >>)
     \o (IF n = 1 /\ self
         THEN << [key |-> "calling__lobby-summary--self", args |-> << >>] >>
         ELSE << >>)
     \o (IF n = 1 /\ ~self
         THEN << [key |-> "calling__lobby-summary--single", args |-> names] >>
         ELSE << >>)
     \o (IF n = 2
         THEN << [key |-> "calling__lobby-summary--double",
                  args |-> << names[1], names[2] >>] >>
         ELSE << >>)
     \o (IF n = 3
         THEN << [key |-> "calling__lobby-summary--triple",
                  args |-> << names[1], names[2], names[3] >>] >>
         ELSE << >>)
     \o (IF n >= 3
         THEN << [key |-> "calling__lobby-summary--many",
                  args |-> << names[1], names[2], Digits[(n - 3) + 1] >>] >>
         ELSE << >>)

\* The children of the module-calling-lobby__info element, in source order.
lobbySummary(p) ==
  LET names == participantNames(p)
      n     == Len(names)
  IN    Child(n = 0, "calling__lobby-summary--zero", << >>)
     \o Child(n = 1 /\ hasYou(p), "calling__lobby-summary--self", << >>)
     \o Child(n = 1 /\ ~hasYou(p), "calling__lobby-summary--single", names)
     \o (IF n = 2
         THEN Child(TRUE, "calling__lobby-summary--double", << names[1], names[2] >>)
         ELSE << >>)
     \o (IF n = 3
         THEN Child(TRUE, "calling__lobby-summary--triple",
                    << names[1], names[2], names[3] >>)
         ELSE << >>)
     \o (IF n > 3
         THEN Child(TRUE, "calling__lobby-summary--many",
                    << names[1], names[2], String(n - 2) >>)
         ELSE << >>)

lobbyInfo(p) ==
  IF p.isGroupCall
  THEN [rendered |-> TRUE, children |-> lobbySummary(p)]
  ELSE [rendered |-> FALSE, children |-> << >>]

videoArea(p) ==
  IF p.hasLocalVideo /\ p.availableCameras > 0 THEN "video" ELSE "CallBackgroundBlur"

joinButton(p, connecting) ==
  [ disabled |-> ~canJoin(p, connecting),
    onClick  |-> IF canJoin(p, connecting) THEN "handler" ELSE "undefined",
    children |-> joinButtonChildren(p, connecting) ]

\* The element tree returned by CallingLobby for props p and state `connecting`.
Render(p, connecting) ==
  [ participantCount |-> Len(p.peekedParticipants),
    videoArea        |-> videoArea(p),
    videoButton      |-> [buttonType |-> videoButtonType(p),
                          onClick    |-> toggleVideoCallback(p)],
    audioButton      |-> [buttonType |-> audioButtonType(p),
                          onClick    |-> toggleAudioCallback(p)],
    info             |-> lobbyInfo(p),
    joinButton       |-> joinButton(p, connecting) ]

\* ----------------------------------------------------------------- effects

\* The hook state, the document's listeners and the call histories, as one
\* record, so that the effect functions below map a record to a record.
Effects ==
  [ previewEffect |-> previewEffect,
    keydownEffect |-> keydownEffect,
    listeners     |-> listeners,
    handlerCount  |-> handlerCount,
    previewLog    |-> previewLog,
    listenerLog   |-> listenerLog ]

\* setLocalPreview({ element: ... }) on the function fn.
PreviewCall(fn, element) == [fn |-> fn, element |-> element]

\* The cleanup returned by the preview effect: setLocalPreview({ element: undefined }),
\* on the setLocalPreview the effect run captured.
previewCleanup(e) ==
  IF e.previewEffect.active
  THEN [e EXCEPT !.previewLog = Append(@, PreviewCall(e.previewEffect.dep, "undefined")),
                 !.previewEffect.active = FALSE]
  ELSE e

\* The body of the preview effect: setLocalPreview({ element: localVideoRef }).
previewCreate(e, p) ==
  [e EXCEPT !.previewLog = Append(@, PreviewCall(p.setLocalPreview, "localVideoRef")),
            !.previewEffect = [active |-> TRUE, dep |-> p.setLocalPreview]]

\* The cleanup returned by the keydown effect:
\* document.removeEventListener('keydown', handleKeyDown), with the handleKeyDown
\* of the same effect run.
keydownCleanup(e) ==
  IF e.keydownEffect.active
  THEN [e EXCEPT !.listeners = { h \in @ : h.id # e.keydownEffect.handler },
                 !.listenerLog = Append(@, [op |-> "remove", handler |-> e.keydownEffect.handler]),
                 !.keydownEffect.active = FALSE]
  ELSE e

\* The body of the keydown effect: a new handleKeyDown closure over the
\* render's toggleVideo and toggleAudio, added to the document.
keydownCreate(e, p) ==
  LET id == e.handlerCount + 1
      h  == [id |-> id, toggleVideo |-> toggleVideoCallback(p),
             toggleAudio |-> toggleAudioCallback(p)]
  IN [e EXCEPT !.handlerCount = id,
               !.listeners = @ \cup {h},
               !.listenerLog = Append(@, [op |-> "add", handler |-> id]),
               !.keydownEffect = [active |-> TRUE, handler |-> id,
                                  deps |-> << toggleVideoCallback(p), toggleAudioCallback(p) >>]]

\* The preview effect without a dependency array: it runs after every render.
previewDepsAlways(e, p) == TRUE

\* The keydown effect with toggleAudio missing from its dependency array.
keydownDepsVideoOnly(e, p) ==
  \/ ~e.keydownEffect.active
  \/ e.keydownEffect.deps[1] # [hasLocalVideo |-> p.hasLocalVideo,
                                 setLocalVideo |-> p.setLocalVideo]

\* Dependency comparison of the two useEffect calls against the last run.
previewDepsChanged(e, p) ==
  ~e.previewEffect.active \/ e.previewEffect.dep # p.setLocalPreview

keydownDepsChanged(e, p) ==
  \/ ~e.keydownEffect.active
  \/ e.keydownEffect.deps # << toggleVideoCallback(p), toggleAudioCallback(p) >>

\* The passive effects of a committed render with props p: the cleanups of
\* the effects whose dependencies changed, then their bodies.
RunPassiveEffects(e, p) ==
  LET e1 == IF previewDepsChanged(e, p) THEN previewCleanup(e) ELSE e
      e2 == IF keydownDepsChanged(e, p) THEN keydownCleanup(e1) ELSE e1
      e3 == IF previewDepsChanged(e, p) THEN previewCreate(e2, p) ELSE e2
  IN IF keydownDepsChanged(e, p) THEN keydownCreate(e3, p) ELSE e3

\* Unmounting runs the cleanup of every effect.
RunCleanups(e) == keydownCleanup(previewCleanup(e))

\* React runs useEffect bodies and cleanups after the commit, not during it,
\* and runs the ones still pending before it begins another render; the
\* cleanups of an unmounting component run when the unmount is committed.
Flushed == IF pendingPassive THEN RunPassiveEffects(Effects, props) ELSE Effects

SetEffects(e) ==
  /\ previewEffect' = e.previewEffect
  /\ keydownEffect' = e.keydownEffect
  /\ listeners' = e.listeners
  /\ handlerCount' = e.handlerCount
  /\ previewLog' = e.previewLog
  /\ listenerLog' = e.listenerLog

\* ------------------------------------------------------------------ events

NoEvent ==
  [ kind |-> "none", shiftKey |-> FALSE, key |-> "", video |-> << >>, audio |-> << >>,
    setIsCallConnecting |-> 0, onJoinCall |-> 0,
    defaultPrevented |-> FALSE, propagationStopped |-> FALSE ]

\* handleKeyDown that does not test shiftKey.
handleKeyDownAnyShift(h, ev) ==
  IF ev.key = "V" \/ ev.key = "v"
  THEN [ev EXCEPT !.video = Append(@, [fn |-> h.toggleVideo.setLocalVideo,
                                       enabled |-> ~h.toggleVideo.hasLocalVideo]),
                  !.defaultPrevented = TRUE, !.propagationStopped = TRUE]
  ELSE IF ev.key = "M" \/ ev.key = "m"
  THEN [ev EXCEPT !.audio = Append(@, [fn |-> h.toggleAudio.setLocalAudio,
                                       enabled |-> ~h.toggleAudio.hasLocalAudio]),
                  !.defaultPrevented = TRUE, !.propagationStopped = TRUE]
  ELSE ev

\* One run of handleKeyDown of listener h on the event record ev, which
\* accumulates the calls the listeners make.
handleKeyDown(h, ev) ==
  IF ev.shiftKey /\ (ev.key = "V" \/ ev.key = "v")
  THEN [ev EXCEPT !.video = Append(@, toggleVideo(h.toggleVideo)),
                  !.defaultPrevented = TRUE, !.propagationStopped = TRUE]
  ELSE IF ev.shiftKey /\ (ev.key = "M" \/ ev.key = "m")
  THEN [ev EXCEPT !.audio = Append(@, toggleAudio(h.toggleAudio)),
                  !.defaultPrevented = TRUE, !.propagationStopped = TRUE]
  ELSE ev

\* The document dispatches the event to its listeners in the order they were
\* added (stopPropagation does not skip listeners of the same target).
RECURSIVE Dispatch(_, _, _)
Dispatch(ls, id, ev) ==
  IF \A h \in ls : h.id < id THEN ev
  ELSE IF \E h \in ls : h.id = id
  THEN Dispatch(ls, id + 1, handleKeyDown(CHOOSE h \in ls : h.id = id, ev))
  ELSE Dispatch(ls, id + 1, ev)

\* ----------------------------------------------------------------- actions

InitialProps ==
  [ availableCameras |-> 0, hasLocalAudio |-> FALSE, hasLocalVideo |-> FALSE,
    isGroupCall |-> FALSE, isCallFull |-> FALSE, peekedParticipants |-> << >>,
    setLocalAudio |-> "f1", setLocalVideo |-> "f1", setLocalPreview |-> "f1" ]

\* Before the lobby is mounted: no hook state, no listener, no call made.
Init ==
  /\ phase = "init"
  /\ props = InitialProps
  /\ isCallConnecting = FALSE
  /\ updateQueued = FALSE
  /\ view = Render(InitialProps, FALSE)
  /\ pendingPassive = FALSE
  /\ previewEffect = [active |-> FALSE, dep |-> "f1"]
  /\ keydownEffect = [active |-> FALSE, handler |-> 0,
                      deps |-> << toggleVideoCallback(InitialProps),
                                  toggleAudioCallback(InitialProps) >>]
  /\ listeners = {}
  /\ handlerCount = 0
  /\ previewLog = << >>
  /\ listenerLog = << >>
  /\ joinCalls = 0
  /\ receivedProps = FALSE
  /\ lastEvent = NoEvent

\* Number of runs of the preview effect body recorded in a history.
PreviewRuns(e) == Cardinality({ i \in 1..Len(e.previewLog) : e.previewLog[i].element # "undefined" })

\* A render with props p and state `connecting` is committed, after the
\* passive effects still pending from the previous commit have run.
Commit(p, connecting) ==
  /\ props' = p
  /\ isCallConnecting' = connecting
  /\ updateQueued' = FALSE
  /\ view' = Render(p, connecting)
  /\ SetEffects(Flushed)
  /\ pendingPassive' = (previewDepsChanged(Flushed, p) \/ keydownDepsChanged(Flushed, p))
  /\ lastEvent' = NoEvent

\* First render: useState(false), both effects scheduled.
Mount(p) ==
  /\ phase = "init"
  /\ phase' = "mounted"
  /\ Commit(p, FALSE)
  /\ UNCHANGED << joinCalls, receivedProps >>

\* The parent renders the lobby again with other props; a queued state
\* update is applied by the same render.
ReceiveProps(p) ==
  /\ phase = "mounted"
  /\ p # props
  /\ keydownDepsChanged(Flushed, p) => Flushed.handlerCount < MaxHandlers
  /\ previewDepsChanged(Flushed, p) => PreviewRuns(Flushed) < MaxPreviewRuns
  /\ Commit(p, isCallConnecting \/ updateQueued)
  /\ receivedProps' = TRUE
  /\ UNCHANGED << phase, joinCalls >>

\* React renders the lobby again because a state update is queued.
Rerender ==
  /\ phase = "mounted"
  /\ updateQueued
  /\ Commit(props, TRUE)
  /\ UNCHANGED << phase, joinCalls, receivedProps >>

\* The passive effects of the last commit run.
FlushPassiveEffects ==
  /\ phase = "mounted"
  /\ pendingPassive
  /\ SetEffects(Flushed)
  /\ pendingPassive' = FALSE
  /\ lastEvent' = NoEvent
  /\ UNCHANGED << phase, props, isCallConnecting, updateQueued, view, joinCalls,
                  receivedProps >>

\* The lobby is removed: pending effects run, then every cleanup.
Unmount ==
  /\ phase = "mounted"
  /\ phase' = "unmounted"
  /\ SetEffects(RunCleanups(Flushed))
  /\ pendingPassive' = FALSE
  /\ updateQueued' = FALSE
  /\ lastEvent' = NoEvent
  /\ UNCHANGED << props, isCallConnecting, view, joinCalls, receivedProps >>

\* A click on the join button runs the onClick closure of the last render,
\* when that render gave the button one: setIsCallConnecting(true); onJoinCall().
ClickJoin ==
  /\ phase = "mounted"
  /\ IF view.joinButton.onClick = "handler"
     THEN /\ joinCalls < MaxJoinCalls
          /\ updateQueued' = TRUE
          /\ joinCalls' = joinCalls + 1
          /\ lastEvent' = [NoEvent EXCEPT !.kind = "clickJoin",
                                          !.setIsCallConnecting = 1, !.onJoinCall = 1]
     ELSE /\ lastEvent' = [NoEvent EXCEPT !.kind = "clickJoin"]
          /\ UNCHANGED << updateQueued, joinCalls >>
  /\ UNCHANGED << phase, props, isCallConnecting, view, pendingPassive, previewEffect,
                  keydownEffect, listeners, handlerCount, previewLog, listenerLog,
                  receivedProps >>

\* A click on the video CallingButton runs the toggleVideo of the last render.
ClickVideo ==
  /\ phase = "mounted"
  /\ lastEvent' = [NoEvent EXCEPT !.kind = "clickVideo",
                                  !.video = << toggleVideo(view.videoButton.onClick) >>]
  /\ UNCHANGED << phase, props, isCallConnecting, updateQueued, view, pendingPassive,
                  previewEffect, keydownEffect, listeners, handlerCount, previewLog,
                  listenerLog, joinCalls, receivedProps >>

\* A click on the audio CallingButton runs the toggleAudio of the last render.
ClickAudio ==
  /\ phase = "mounted"
  /\ lastEvent' = [NoEvent EXCEPT !.kind = "clickAudio",
                                  !.audio = << toggleAudio(view.audioButton.onClick) >>]
  /\ UNCHANGED << phase, props, isCallConnecting, updateQueued, view, pendingPassive,
                  previewEffect, keydownEffect, listeners, handlerCount, previewLog,
                  listenerLog, joinCalls, receivedProps >>

\* A keydown event reaches the document, whatever the lobby's phase.
KeyDown(k) ==
  /\ lastEvent' = Dispatch(listeners, 1,
                           [NoEvent EXCEPT !.kind = "keydown", !.shiftKey = k.shiftKey,
                                           !.key = k.key])
  /\ UNCHANGED << phase, props, isCallConnecting, updateQueued, view, pendingPassive,
                  previewEffect, keydownEffect, listeners, handlerCount, previewLog,
                  listenerLog, joinCalls, receivedProps >>

Next ==
  \/ \E p \in MountProps : Mount(p)
  \/ \E p \in PropChanges(props) : ReceiveProps(p)
  \/ Rerender
  \/ FlushPassiveEffects
  \/ Unmount
  \/ ClickJoin
  \/ ClickVideo
  \/ ClickAudio
  \/ \E k \in KeyEvents : KeyDown(k)

Spec == Init /\ [][Next]_vars

\* A single render of the lobby, over every combination of the props it reads.
NextView == \E p \in ViewProps : Mount(p)

SpecView == Init /\ [][NextView]_vars

\* ------------------------------------------------------------------ claims

\* C1: from a mounted lobby whose call is not full and whose connecting flag
\* is false, however many join clicks are dispatched before the next render,
\* onJoinCall is invoked exactly once in total and the join attempt is marked
\* by the first click.
C1_JoinInvokedOnce ==
  /\ joinCalls <= 1
  /\ joinCalls >= 1 => (isCallConnecting \/ updateQueued)

\* C2: in a render where isCallFull is true, a click on the join control
\* calls neither setIsCallConnecting nor onJoinCall and leaves the connecting
\* flag and its queued update as they were, whatever the other props and the
\* connecting flag are.
C2_FullCallClickIsNoOp ==
  (phase = "mounted" /\ props.isCallFull /\ lastEvent.kind = "clickJoin")
    => /\ lastEvent.setIsCallConnecting = 0
       /\ lastEvent.onJoinCall = 0
       /\ ~updateQueued

C2_Witness ==
  /\ phase = "mounted"
  /\ props.isCallFull
  /\ lastEvent.kind = "clickJoin"
  /\ ~isCallConnecting

\* C3: a mount followed by an unmount with no prop change in between makes
\* exactly one setLocalPreview call with the ref as target, then exactly one
\* with an undefined target, and exactly one addEventListener /
\* removeEventListener pair, both for the same handler.
C3_MountUnmountPairs ==
  (phase = "unmounted" /\ ~receivedProps)
    => /\ previewLog = << PreviewCall(props.setLocalPreview, "localVideoRef"),
                          PreviewCall(props.setLocalPreview, "undefined") >>
       /\ Len(listenerLog) = 2
       /\ listenerLog[1].op = "add"
       /\ listenerLog[2].op = "remove"
       /\ listenerLog[1].handler = listenerLog[2].handler
       /\ listeners = {}

C3_Witness ==
  /\ phase = "unmounted"
  /\ ~receivedProps
  /\ isCallConnecting
  /\ Len(previewLog) = 2

\* C4: the connecting flag is false at mount, becomes true only through an
\* eligible join click, is never set back to false while the lobby stays
\* mounted, and in every render in which it is true the join control is
\* disabled and has no click handler, whatever the props become.
C4_ConnectingStep ==
  /\ (phase = "init" /\ phase' = "mounted") => ~isCallConnecting'
  /\ (~isCallConnecting /\ isCallConnecting') => (updateQueued /\ joinCalls >= 1)
  /\ (isCallConnecting /\ phase = "mounted" /\ phase' = "mounted") => isCallConnecting'
  /\ isCallConnecting' => /\ view'.joinButton.disabled
                          /\ view'.joinButton.onClick = "undefined"

C4_ConnectingFlag == [][C4_ConnectingStep]_vars

C4_Witness ==
  /\ phase = "mounted"
  /\ isCallConnecting
  /\ receivedProps
  /\ ~props.isCallFull
  /\ lastEvent.kind = "clickJoin"

\* C9: the join button's content is the call-is-full text if isCallFull, else
\* the spinner if the connecting flag is true, else the join text if
\* peekedParticipants is not empty, else the start text; and the button is
\* enabled exactly when its content is the join text or the start text.
C9_JoinButtonContent ==
  phase # "init"
    => /\ props.isCallFull => view.joinButton.children = "calling__call-is-full"
       /\ (~props.isCallFull /\ isCallConnecting) => view.joinButton.children = "Spinner"
       /\ (~props.isCallFull /\ ~isCallConnecting /\ props.peekedParticipants # << >>)
            => view.joinButton.children = "calling__join"
       /\ (~props.isCallFull /\ ~isCallConnecting /\ props.peekedParticipants = << >>)
            => view.joinButton.children = "calling__start"
       /\ ~view.joinButton.disabled
            <=> view.joinButton.children \in {"calling__join", "calling__start"}
       /\ ~view.joinButton.disabled <=> view.joinButton.onClick = "handler"

C9_Witness ==
  /\ phase = "mounted"
  /\ props.isCallFull
  /\ isCallConnecting
  /\ props.peekedParticipants # << >>
  /\ view.joinButton.children = "calling__call-is-full"
  /\ view.joinButton.disabled

\* What a keydown event must have caused when the lobby reacts to it.
VideoCombo(ev) == ev.shiftKey /\ ev.key \in {"V", "v"}

AudioCombo(ev) == ev.shiftKey /\ ev.key \in {"M", "m"}

KeyDownHandled(ev) ==
  /\ VideoCombo(ev) => (Len(ev.video) = 1 /\ ev.audio = << >>)
  /\ AudioCombo(ev) => (Len(ev.audio) = 1 /\ ev.video = << >>)
  /\ ev.defaultPrevented <=> (VideoCombo(ev) \/ AudioCombo(ev))
  /\ ev.propagationStopped <=> (VideoCombo(ev) \/ AudioCombo(ev))
  /\ ~(VideoCombo(ev) \/ AudioCombo(ev)) => (ev.video = << >> /\ ev.audio = << >>)

KeyDownIgnored(ev) ==
  /\ ev.video = << >>
  /\ ev.audio = << >>
  /\ ~ev.defaultPrevented
  /\ ~ev.propagationStopped

\* C5 as stated: while the lobby is mounted, each keydown with Shift and
\* V/v invokes the video toggle exactly once, each with Shift and M/m the
\* audio toggle exactly once, preventDefault and stopPropagation are called
\* exactly for these combinations, and every other keydown invokes no toggle
\* and is not suppressed.
C5_WhileMounted ==
  (phase = "mounted" /\ lastEvent.kind = "keydown") => KeyDownHandled(lastEvent)

\* C5 as amended: the statement of C5 holds from the moment the passive
\* effects of the mount have run (the keydown effect is active) until the
\* unmount; before that moment and after the unmount no keydown invokes a
\* toggle or is suppressed.
C5_WhileListening ==
  lastEvent.kind = "keydown"
    => IF phase = "mounted" /\ keydownEffect.active
       THEN KeyDownHandled(lastEvent)
       ELSE KeyDownIgnored(lastEvent)

C5_Witness ==
  /\ phase = "mounted"
  /\ keydownEffect.active
  /\ lastEvent.kind = "keydown"
  /\ lastEvent.shiftKey
  /\ lastEvent.key = "v"
  /\ Len(lastEvent.video) = 1
  /\ lastEvent.defaultPrevented

\* Every setLocalVideo / setLocalAudio call of the event asks the function of
\* props p for the negation of p's flag.
RequestsInverseOf(ev, p) ==
  /\ \A i \in 1..Len(ev.video) :
       ev.video[i] = [fn |-> p.setLocalVideo, enabled |-> ~p.hasLocalVideo]
  /\ \A i \in 1..Len(ev.audio) :
       ev.audio[i] = [fn |-> p.setLocalAudio, enabled |-> ~p.hasLocalAudio]

IsToggle(ev) == ev.video # << >> \/ ev.audio # << >>

C6_ToggleStep ==
  /\ (phase' = "mounted" /\ IsToggle(lastEvent')
        /\ (lastEvent'.kind \in {"clickVideo", "clickAudio"} \/ ~pendingPassive'))
       => RequestsInverseOf(lastEvent', props')
  /\ lastEvent'.kind \in {"clickVideo", "clickAudio", "keydown"}
       => UNCHANGED << isCallConnecting, updateQueued, view, props >>
  /\ (phase = "mounted" /\ phase' = "mounted"
        /\ (view'.videoButton.buttonType # view.videoButton.buttonType
              \/ view'.audioButton.buttonType # view.audioButton.buttonType))
       => (props'.hasLocalVideo # props.hasLocalVideo
             \/ props'.hasLocalAudio # props.hasLocalAudio)
  /\ (lastEvent.video # << >> /\ lastEvent'.video # << >> /\ ~pendingPassive)
       => lastEvent'.video = lastEvent.video
  /\ (lastEvent.audio # << >> /\ lastEvent'.audio # << >> /\ ~pendingPassive)
       => lastEvent'.audio = lastEvent.audio

ListenerLogAlternates ==
  \A i \in 1..Len(listenerLog) :
    IF i % 2 = 1
    THEN /\ listenerLog[i].op = "add"
         /\ \A j \in 1..(i - 1) : listenerLog[j].handler # listenerLog[i].handler
    ELSE /\ listenerLog[i].op = "remove"
         /\ listenerLog[i].handler = listenerLog[i - 1].handler

\* The handleKeyDown closure of a render with props p, whichever its identity.
ClosesOver(h, p) ==
  /\ h.toggleVideo = [hasLocalVideo |-> p.hasLocalVideo, setLocalVideo |-> p.setLocalVideo]
  /\ h.toggleAudio = [hasLocalAudio |-> p.hasLocalAudio, setLocalAudio |-> p.setLocalAudio]

\* C10 as stated: over any sequence of mount, prop changes, key events and
\* unmount, listener additions and removals strictly alternate per handler,
\* at most one lobby handler is attached at any moment, the attached handler
\* toggles against the flag values of the most recently committed render, and
\* no lobby handler remains attached after unmount.
C10_HandlerOfLastCommit ==
  /\ ListenerLogAlternates
  /\ Cardinality(listeners) <= 1
  /\ phase = "mounted"
       => \A h \in listeners : /\ h.toggleVideo.hasLocalVideo = props.hasLocalVideo
                                /\ h.toggleAudio.hasLocalAudio = props.hasLocalAudio
  /\ phase = "unmounted" => listeners = {}

\* C10 as amended: as C10, except that the attached handler toggles against
\* the flag values of the most recent render whose passive effects have run:
\* once the effects of the most recently committed render have run, exactly
\* one handler is attached and it toggles against that render's values; until
\* then the handler of the render before it (none, after the mount) is the
\* one attached.
C10_HandlerOfLastEffects ==
  /\ ListenerLogAlternates
  /\ Cardinality(listeners) <= 1
  /\ (phase = "mounted" /\ ~pendingPassive)
       => /\ Cardinality(listeners) = 1
          /\ \A h \in listeners : ClosesOver(h, props)
  /\ (phase = "mounted" /\ pendingPassive /\ handlerCount = 0) => listeners = {}
  /\ listeners # {} <=> (keydownEffect.active /\ Len(listenerLog) % 2 = 1)
  /\ \A h \in listeners : h.id = listenerLog[Len(listenerLog)].handler
  /\ phase = "unmounted" => listeners = {}

C10_Witness ==
  /\ phase = "mounted"
  /\ ~pendingPassive
  /\ handlerCount = 2
  /\ Len(listenerLog) = 3
  /\ lastEvent.kind = "keydown"
  /\ lastEvent.audio # << >>

\* C7: for every combination of hasLocalVideo and number of cameras, the
\* video toggle icon is VIDEO_ON exactly when hasLocalVideo is true, otherwise
\* VIDEO_DISABLED exactly when there are no cameras, otherwise VIDEO_OFF.
C7_VideoButtonType ==
  phase = "mounted"
    => /\ view.videoButton.buttonType = "VIDEO_ON" <=> props.hasLocalVideo
       /\ ~props.hasLocalVideo
            => (view.videoButton.buttonType = "VIDEO_DISABLED"
                  <=> props.availableCameras = 0)
       /\ (~props.hasLocalVideo /\ props.availableCameras > 0)
            => view.videoButton.buttonType = "VIDEO_OFF"

C7_Witness ==
  /\ phase = "mounted"
  /\ props.hasLocalVideo
  /\ props.availableCameras = 0
  /\ view.videoButton.buttonType = "VIDEO_ON"

\* The summary case that a peeked list of length n selects.
SummaryKey(n, onlySelf) ==
  IF n = 0 THEN "calling__lobby-summary--zero"
  ELSE IF n = 1 /\ onlySelf THEN "calling__lobby-summary--self"
  ELSE IF n = 1 THEN "calling__lobby-summary--single"
  ELSE IF n = 2 THEN "calling__lobby-summary--double"
  ELSE IF n = 3 THEN "calling__lobby-summary--triple"
  ELSE "calling__lobby-summary--many"

\* The name an entry of the peeked list is shown under.
ShownName(c) ==
  IF c.uuid = MeUuid THEN "i18n:you"
  ELSE IF c.uuid = "uuid-bob" THEN "Bob"
  ELSE "Carol C"

\* C8: in a group call, for every peeked list (the local user's uuid may occur
\* several times), exactly one summary case is rendered, selected by the
\* length of the list: zero; one entry that is the local user; one entry that
\* is not; two; three; more than three, which names the first two entries
\* and reports the length minus 2 as the count of others.  Outside a group
\* call no summary is rendered.
C8_LobbySummary ==
  phase = "mounted"
    => LET list == props.peekedParticipants
           n    == Len(list)
           kids == view.info.children
       IN IF ~props.isGroupCall
          THEN ~view.info.rendered /\ kids = << >>
          ELSE /\ view.info.rendered
               /\ Len(kids) = 1
               /\ kids[1].key = SummaryKey(n, n = 1 /\ list[1].uuid = MeUuid)
               /\ n > 3 => /\ Len(kids[1].args) = 3
                           /\ kids[1].args[1] = ShownName(list[1])
                           /\ kids[1].args[2] = ShownName(list[2])
                           /\ kids[1].args[3] = Digits[(n - 2) + 1]
               /\ n = 1 /\ list[1].uuid # MeUuid
                    => kids[1].args = << ShownName(list[1]) >>

C8_Witness ==
  /\ phase = "mounted"
  /\ props.isGroupCall
  /\ Len(props.peekedParticipants) = 4
  /\ props.peekedParticipants[1].uuid = MeUuid
  /\ props.peekedParticipants[3].uuid = MeUuid
  /\ props.peekedParticipants[2].uuid = "uuid-carol"
  /\ view.info.children =
       << [key |-> "calling__lobby-summary--many",
           args |-> << "i18n:you", "Carol C", "2" >>] >>

=============================================================================
